---- MODULE Spec2Model ----
(***************************************************************************)
(* A model of lightclock.py: main's control loop, the hardware calls it    *)
(* makes through initRaspPi and lightControl, and its exception handling.  *)
(*                                                                         *)
(* Units.  Time is in whole seconds.  A raw sun altitude is in units of    *)
(* 1/AltScale degree, so that int(math.degrees(sun.alt)) really truncates. *)
(* A duty cycle is in hundredths of a percent: 0.01 is 1, 99.9 is 9990 and *)
(* an integer percentage d is 100 * d.                                     *)
(***************************************************************************)
EXTENDS Integers, Sequences, FiniteSets, TLC

VARIABLES
    pc,              \* position of main
    PWM_pin,         \* TRUE once main's local PWM_pin is bound (line 44)
    sun_alt,         \* sun.alt as left by sun.compute, in 1/AltScale degree
    altitude,        \* main's local altitude
    prev_altitude,   \* main's local prev_altitude
    tick,            \* main's local tick
    now,             \* the latest value time.time() returned
    sleep_arg,       \* the argument of the running or last time.sleep call
    work,            \* time.time() - tick as line 123 read it for that call
    duty_cycle,      \* the last value passed to pin.ChangeDutyCycle
    exc,             \* the exception in flight, or main ended with
    cycle,           \* number of loop iterations started
    calls_in_cycle,  \* ChangeDutyCycle calls made in the current iteration
    alt_before,      \* quantized altitude of the previous iteration, kept
                     \* until line 120 of the iteration
    stop_calls,      \* number of PWM_pin.stop() calls
    cleanup_calls,   \* number of GPIO.cleanup() calls
    interrupted_at,  \* position at which KeyboardInterrupt arrived
    late_calls,      \* ChangeDutyCycle calls made after a KeyboardInterrupt
    arg1, arg2,      \* two altitudes handed to lightControl on its own
    out1, out2,      \* the duty cycles lightControl sent for arg1 and arg2
    tad_offset,      \* main's local tad_offset (line 67)
    tad,             \* time.time() - tad_offset as line 86 computed it
    read_at,         \* the value time.time() returned at line 86
    tad_before,      \* tad of the previous iteration, kept until line 120
    read_before,     \* read_at of the previous iteration, kept until line 120
    setup_fault,     \* what was wrong with the arguments of main, if anything,
                     \* kept until line 120 of the first iteration
    loc              \* a call of setLocation on its own: arguments and outcome

vars == <<pc, PWM_pin, sun_alt, altitude, prev_altitude, tick, now, sleep_arg, work,
          duty_cycle, exc, cycle, calls_in_cycle, alt_before, stop_calls,
          cleanup_calls, interrupted_at, late_calls, arg1, arg2, out1, out2,
          tad_offset, tad, read_at, tad_before, read_before, setup_fault, loc>>

(***************************************************************************)
(* Program constants                                                       *)
(***************************************************************************)
TIMER == 60

TWILIGHT_ALT == -18

(***************************************************************************)
(* Bounds of the model                                                     *)
(***************************************************************************)
MaxCycles == 2

MaxWork == 61

MaxLatency == 1

AltMargin == 2

AltScale == 2

(***************************************************************************)
(* Values standing for "not assigned yet"                                  *)
(***************************************************************************)
NoAltitude == 1000

NoDuty == -1

Abs(x) == IF x >= 0 THEN x ELSE -x

\* int(x) of Python on the rational num / den, den > 0: truncation toward zero
IntTrunc(num, den) == IF num >= 0 THEN num \div den ELSE -((-num) \div den)

\* the altitudes sun.compute can leave in sun.alt, in 1/AltScale degree
RawAltitudes ==
    (AltScale * (TWILIGHT_ALT - AltMargin)) .. (AltScale * AltMargin)

\* rounding down instead of toward zero
IntDegreesFloor(raw) == raw \div AltScale

\* line 100: altitude = int(math.degrees(sun.alt))
IntDegrees(raw) == IntTrunc(raw, AltScale)

\* lines 105-111: collapse full day to 0 and full night to TWILIGHT_ALT
Clamp(a) ==
    IF a >= 0 THEN 0
    ELSE IF a < TWILIGHT_ALT THEN TWILIGHT_ALT
    ELSE a

\* a start value inside the range of the quantized altitudes
PrevAltitudeInRange == Clamp(900)

\* line 77: prev_altitude = 900
PrevAltitudeInit == 900

\* a comparison that asks for a change of more than one degree
AltitudeChangedByTwo(a, p) == Abs(a - p) > 1

\* a comparison that counts no change as a change
AlwaysChanged(a, p) == Abs(a - p) >= 0

\* line 116: abs(altitude - prev_altitude) > 0
AltitudeChanged(a, p) == Abs(a - p) > 0

\* lightControl without lines 158-161
lightControlUnclamped(a) ==
    100 * IntTrunc(Abs(100 * Abs(TWILIGHT_ALT - a)), Abs(TWILIGHT_ALT))

\* lightControl rounding to the nearest percent instead of truncating
lightControlRounded(a) ==
    LET num == 100 * Abs(TWILIGHT_ALT - a)
        den == Abs(TWILIGHT_ALT)
        pct == (2 * num + den) \div (2 * den)
    IN  IF pct = 0 THEN 1
        ELSE IF pct = 100 THEN 9990
        ELSE 100 * pct

\* lightControl measuring the distance from the horizon, not from twilight
lightControlInverted(a) ==
    LET pct == IntTrunc(100 * Abs(a), Abs(TWILIGHT_ALT))
    IN  IF pct = 0 THEN 1
        ELSE IF pct = 100 THEN 9990
        ELSE 100 * pct

\* lines 155-161: the value lightControl hands to pin.ChangeDutyCycle.
\* The quotient abs(T - a) / T is negative, is scaled by 100, made positive
\* by the outer abs and truncated by int; then the two end points are moved.
lightControl(a) ==
    LET num == 100 * Abs(TWILIGHT_ALT - a)
        den == TWILIGHT_ALT
        pct == IntTrunc(Abs(num), Abs(den))
    IN  IF pct = 0 THEN 1
        ELSE IF pct = 100 THEN 9990
        ELSE 100 * pct

\* the rest of the period without the modulo
SleepArgNoMod(t, tk) == TIMER - (t - tk)

\* sleeping a whole period whatever the work took
SleepArgFull(t, tk) == TIMER

\* line 123: TIMER - ((time.time() - tick) % TIMER)
SleepArg(t, tk) == TIMER - ((t - tk) % TIMER)

\* the offset added instead of subtracted
SimulatedNowAdded(t, offset) == t + offset

\* line 86: time.time() - tad_offset
SimulatedNow(t, offset) == t - offset

(***************************************************************************)
(* setLocation, lines 196-219: is a call with coordinates and no city      *)
(* accepted?  A zero latitude or longitude is falsy at line 208.           *)
(***************************************************************************)
Lats == {-91, -90, 0, 45, 90, 91}

Lons == {-181, -180, 0, 100, 180, 181}

Truthy(x) == x # 0

CoordsAccepted(lat, lon) ==
    IF Truthy(lat) /\ Truthy(lon)
    THEN /\ (-90 <= lat /\ lat <= 90)
         /\ (-180 < lon /\ lon <= 180)
    ELSE FALSE

\* the latitude and longitude the comment at line 206 allows
InBounds(lat, lon) ==
    /\ (-90 <= lat /\ lat <= 90)
    /\ (-180 < lon /\ lon <= 180)

\* lines 201-236 for a call without a city: the pair is checked, then the
\* time zone is looked up, which succeeds or not; the pair is returned as is
setLocation(lat, lon, lookup) ==
    IF CoordsAccepted(lat, lon) /\ lookup
    THEN [result |-> "accepted", ret |-> <<lat, lon>>]
    ELSE [result |-> "raised", ret |-> <<>>]

\* no call of setLocation on its own
NoLocation ==
    [lat |-> 0, lon |-> 0, lookup |-> FALSE, result |-> "idle", ret |-> <<>>]

\* the forms of the optional start time and start date arguments of main:
\* None, the empty string, a string time.strptime parses, one it rejects
TimeArgs == {"absent", "empty", "wellformed", "malformed"}

\* lines 52 and 59: "if time_var:" and "if date:"
Given(a) == a \in {"wellformed", "malformed"}

\* time.mktime(start_tad) less the current time, in seconds, when a start
\* time or date was parsed
StartShifts == {-3600, 0}

(***************************************************************************)
(* State after main is entered, at the call of initRaspPi (line 44)        *)
(***************************************************************************)
Init ==
    /\ pc = "initRaspPi"
    /\ PWM_pin = FALSE
    /\ sun_alt = NoAltitude
    /\ altitude = NoAltitude
    /\ prev_altitude = NoAltitude
    /\ tick = 0
    /\ now = 0
    /\ sleep_arg = 0
    /\ work = 0
    /\ duty_cycle = NoDuty
    /\ exc = "none"
    /\ cycle = 0
    /\ calls_in_cycle = 0
    /\ alt_before = NoAltitude
    /\ stop_calls = 0
    /\ cleanup_calls = 0
    /\ interrupted_at = "none"
    /\ late_calls = 0
    /\ arg1 = NoAltitude
    /\ arg2 = NoAltitude
    /\ out1 = NoDuty
    /\ out2 = NoDuty
    /\ tad_offset = 0
    /\ tad = 0
    /\ read_at = 0
    /\ tad_before = 0
    /\ read_before = 0
    /\ setup_fault = "none"
    /\ loc = NoLocation

pureVars == <<arg1, arg2, out1, out2, loc>>

clockVars == <<tad_offset, tad, read_at, tad_before, read_before>>

hwVars == <<stop_calls, cleanup_calls>>

loopVars == <<sun_alt, altitude, prev_altitude, tick, now, sleep_arg, work,
              duty_cycle, cycle, calls_in_cycle, alt_before, late_calls>>

\* lines 132-133: any exception other than KeyboardInterrupt is re-raised
Raise(e) ==
    /\ pc' = "raised"
    /\ exc' = e

\* line 44: PWM_pin = initRaspPi(), lines 140-147
main_initRaspPi ==
    /\ pc = "initRaspPi"
    /\ \/ /\ PWM_pin' = TRUE
          /\ pc' = "setLocation"
          /\ exc' = exc
       \/ /\ Raise("Error")
          /\ PWM_pin' = PWM_pin
    /\ UNCHANGED <<loopVars, hwVars, interrupted_at, pureVars,
                   clockVars, setup_fault>>

\* line 46: coords, tz = setLocation(city=address, lat_lon=coords)
main_setLocation ==
    /\ pc = "setLocation"
    /\ \E city \in BOOLEAN, given \in BOOLEAN, lat \in Lats, lon \in Lons,
          lookup \in BOOLEAN :
          LET ok == IF city /\ given THEN FALSE          \* line 196
                    ELSE IF city THEN lookup             \* lines 222-234
                    ELSE IF ~given THEN FALSE            \* line 204
                    ELSE setLocation(lat, lon, lookup).result = "accepted"
          IN  IF ok
              THEN /\ pc' = "setup"
                   /\ exc' = exc
                   /\ setup_fault' = setup_fault
              ELSE /\ Raise("Error")
                   /\ setup_fault' = "location"
    /\ UNCHANGED <<PWM_pin, loopVars, hwVars, interrupted_at, pureVars,
                   clockVars>>

\* a setup that goes on to the loop with a string time.strptime rejects
main_setup_lenient ==
    /\ pc = "setup"
    /\ \E time_var \in TimeArgs, date \in TimeArgs :
          /\ setup_fault' = IF "malformed" \in {time_var, date}
                            THEN "malformed"
                            ELSE IF "empty" \in {time_var, date}
                            THEN "empty" ELSE setup_fault
    /\ tad_offset' = 0
    /\ prev_altitude' = PrevAltitudeInit
    /\ pc' = "tick"
    /\ UNCHANGED <<PWM_pin, sun_alt, altitude, tick, now, sleep_arg, work,
                   duty_cycle, cycle, calls_in_cycle, alt_before, late_calls,
                   hwVars, interrupted_at, pureVars, tad, read_at, tad_before,
                   read_before, exc>>

\* lines 50-77: start time and date, offset, observer, sun, prev_altitude
main_setup ==
    /\ pc = "setup"
    /\ \E time_var \in TimeArgs, date \in TimeArgs, shift \in StartShifts :
          /\ (Given(time_var) \/ Given(date)) \/ shift = 0
          /\ IF (Given(time_var) /\ time_var = "malformed")      \* line 53
                \/ (Given(date) /\ date = "malformed")           \* line 60
             THEN /\ Raise("Error")
                  /\ setup_fault' = "malformed"
                  /\ UNCHANGED <<prev_altitude, tad_offset>>
             ELSE /\ tad_offset' = now - (now + shift)           \* line 67
                  /\ prev_altitude' = PrevAltitudeInit           \* line 77
                  /\ setup_fault' = IF "empty" \in {time_var, date}
                                    THEN "empty" ELSE setup_fault
                  /\ pc' = "tick"
                  /\ exc' = exc
    /\ UNCHANGED <<PWM_pin, sun_alt, altitude, tick, now, sleep_arg, work,
                   duty_cycle, cycle, calls_in_cycle, alt_before, late_calls,
                   hwVars, interrupted_at, pureVars, tad, read_at, tad_before,
                   read_before>>

\* line 82: tick = time.time(), the start of an iteration
loop_tick ==
    /\ pc = "tick"
    /\ cycle < MaxCycles
    /\ tick' = now
    /\ cycle' = cycle + 1
    /\ calls_in_cycle' = 0
    /\ alt_before' = altitude
    /\ sleep_arg' = 0
    /\ work' = 0
    /\ pc' = "compute"
    /\ UNCHANGED <<PWM_pin, sun_alt, altitude, prev_altitude, now, duty_cycle,
                   exc, late_calls, hwVars, interrupted_at, pureVars,
                   clockVars, setup_fault>>

\* lines 86-97: time.time() is read again, the simulated time is derived
\* from it (kept here as seconds since the epoch), sun.compute(observer)
loop_compute ==
    /\ pc = "compute"
    /\ \/ /\ \E d \in 0 .. MaxLatency :
                /\ now' = now + d
                /\ read_at' = now + d
                /\ tad' = SimulatedNow(now + d, tad_offset)      \* line 86
          /\ tad_before' = tad
          /\ read_before' = read_at
          /\ \E raw \in RawAltitudes : sun_alt' = raw            \* line 97
          /\ pc' = "quantize"
          /\ exc' = exc
       \/ /\ Raise("Error")
          /\ UNCHANGED <<sun_alt, now, tad, read_at, tad_before, read_before>>
    /\ UNCHANGED <<PWM_pin, altitude, prev_altitude, tick, sleep_arg, work,
                   duty_cycle, cycle, calls_in_cycle, alt_before, late_calls,
                   hwVars, interrupted_at, pureVars, tad_offset, setup_fault>>

\* lines 100-111: truncate to whole degrees, then collapse day and night
loop_quantize ==
    /\ pc = "quantize"
    /\ altitude' = Clamp(IntDegrees(sun_alt))
    /\ pc' = "light"
    /\ UNCHANGED <<PWM_pin, sun_alt, prev_altitude, tick, now, sleep_arg, work,
                   duty_cycle, exc, cycle, calls_in_cycle, alt_before,
                   late_calls, hwVars, interrupted_at, pureVars,
                   clockVars, setup_fault>>

\* line 166: pin.ChangeDutyCycle(duty_cycle), which may fail
ChangeDutyCycle(dc) ==
    /\ duty_cycle' = dc
    /\ calls_in_cycle' = calls_in_cycle + 1
    /\ late_calls' = IF interrupted_at = "none" THEN late_calls
                     ELSE late_calls + 1
    /\ \/ pc' = "update" /\ exc' = exc
       \/ Raise("Error")

\* lines 116-117: call lightControl when the altitude changed
loop_light ==
    /\ pc = "light"
    /\ IF AltitudeChanged(altitude, prev_altitude)
       THEN ChangeDutyCycle(lightControl(altitude))
       ELSE /\ pc' = "update"
            /\ UNCHANGED <<duty_cycle, calls_in_cycle, late_calls, exc>>
    /\ UNCHANGED <<PWM_pin, sun_alt, altitude, prev_altitude, tick, now,
                   sleep_arg, work, cycle, alt_before, hwVars, interrupted_at,
                   pureVars,
                   clockVars, setup_fault>>

\* an iteration that leaves prev_altitude as it was
loop_update_skipped ==
    /\ pc = "update"
    /\ alt_before' = NoAltitude
    /\ tad_before' = 0
    /\ read_before' = 0
    /\ setup_fault' = "none"
    /\ pc' = "sleep"
    /\ UNCHANGED <<PWM_pin, sun_alt, altitude, prev_altitude, tick, now,
                   sleep_arg, work, duty_cycle, exc, cycle, calls_in_cycle,
                   late_calls, hwVars, interrupted_at, pureVars, tad_offset,
                   tad, read_at>>

\* line 120: prev_altitude = altitude
loop_update ==
    /\ pc = "update"
    /\ prev_altitude' = altitude
    /\ alt_before' = NoAltitude
    /\ tad_before' = 0
    /\ read_before' = 0
    /\ setup_fault' = "none"
    /\ pc' = "sleep"
    /\ UNCHANGED <<PWM_pin, sun_alt, altitude, tick, now, sleep_arg, work,
                   duty_cycle, exc, cycle, calls_in_cycle, late_calls, hwVars,
                   interrupted_at, pureVars, tad_offset, tad, read_at>>

\* line 123: time.time() is read d seconds after line 86 read it, and
\* time.sleep starts
loop_sleep ==
    /\ pc = "sleep"
    /\ \E d \in 0 .. MaxWork :
          /\ now' = now + d
          /\ work' = (now + d) - tick
          /\ sleep_arg' = SleepArg(now + d, tick)
    /\ pc' = "sleeping"
    /\ UNCHANGED <<PWM_pin, sun_alt, altitude, prev_altitude, tick,
                   duty_cycle, exc, cycle, calls_in_cycle, alt_before,
                   late_calls, hwVars, interrupted_at, pureVars, clockVars,
                   setup_fault>>

\* line 123: time.sleep returns after the time asked for; back to line 80
loop_wake ==
    /\ pc = "sleeping"
    /\ now' = now + sleep_arg
    /\ pc' = "tick"
    /\ UNCHANGED <<PWM_pin, sun_alt, altitude, prev_altitude, tick, sleep_arg, work,
                   duty_cycle, exc, cycle, calls_in_cycle, alt_before,
                   late_calls, hwVars, interrupted_at, pureVars,
                   clockVars, setup_fault>>

\* the positions of main inside its try block, lines 43-123
TryPcs == {"initRaspPi", "setLocation", "setup", "tick", "compute",
           "quantize", "light", "update", "sleep", "sleeping"}

\* line 125: KeyboardInterrupt is raised in the try block and caught
KeyboardInterrupt ==
    /\ pc \in TryPcs
    /\ interrupted_at' = pc
    /\ exc' = "KeyboardInterrupt"
    /\ pc' = "except_stop"
    /\ UNCHANGED <<PWM_pin, loopVars, hwVars, pureVars,
                   clockVars, setup_fault>>

\* a handler that releases the GPIO where it should stop the PWM
except_stop_released ==
    /\ pc = "except_stop"
    /\ cleanup_calls' = cleanup_calls + 1
    /\ pc' = "except_cleanup"
    /\ UNCHANGED <<PWM_pin, loopVars, stop_calls, exc, interrupted_at,
                   pureVars, clockVars, setup_fault>>

\* a handler that releases the GPIO without stopping the PWM
except_stop_skipped ==
    /\ pc = "except_stop"
    /\ pc' = "except_cleanup"
    /\ UNCHANGED <<PWM_pin, loopVars, hwVars, exc, interrupted_at, pureVars,
                   clockVars, setup_fault>>

\* line 127: PWM_pin.stop(); the name is unbound if line 44 never finished
except_stop ==
    /\ pc = "except_stop"
    /\ IF PWM_pin
       THEN /\ stop_calls' = stop_calls + 1
            /\ pc' = "except_cleanup"
            /\ exc' = exc
       ELSE /\ Raise("UnboundLocalError")
            /\ stop_calls' = stop_calls
    /\ UNCHANGED <<PWM_pin, loopVars, cleanup_calls, interrupted_at, pureVars,
                   clockVars, setup_fault>>

\* lines 128-130: GPIO.cleanup() and return
except_cleanup ==
    /\ pc = "except_cleanup"
    /\ cleanup_calls' = cleanup_calls + 1
    /\ exc' = "none"
    /\ pc' = "returned"
    /\ UNCHANGED <<PWM_pin, loopVars, stop_calls, interrupted_at, pureVars,
                   clockVars, setup_fault>>

Next ==
    \/ main_initRaspPi
    \/ main_setLocation
    \/ main_setup
    \/ loop_tick
    \/ loop_compute
    \/ loop_quantize
    \/ loop_light
    \/ loop_update
    \/ loop_sleep
    \/ loop_wake
    \/ KeyboardInterrupt
    \/ except_stop
    \/ except_cleanup

Spec == Init /\ [][Next]_vars

(***************************************************************************)
(* lightControl on its own: two altitudes of the quantized range are drawn *)
(* and each is handed to lightControl once.                                *)
(***************************************************************************)
InitLight ==
    /\ pc = "lightControl"
    /\ PWM_pin = TRUE
    /\ sun_alt = NoAltitude
    /\ altitude = NoAltitude
    /\ prev_altitude = NoAltitude
    /\ tick = 0
    /\ now = 0
    /\ sleep_arg = 0
    /\ work = 0
    /\ duty_cycle = NoDuty
    /\ exc = "none"
    /\ cycle = 0
    /\ calls_in_cycle = 0
    /\ alt_before = NoAltitude
    /\ stop_calls = 0
    /\ cleanup_calls = 0
    /\ interrupted_at = "none"
    /\ late_calls = 0
    /\ arg1 \in TWILIGHT_ALT .. 0
    /\ arg2 \in TWILIGHT_ALT .. 0
    /\ out1 = NoDuty
    /\ out2 = NoDuty
    /\ tad_offset = 0
    /\ tad = 0
    /\ read_at = 0
    /\ tad_before = 0
    /\ read_before = 0
    /\ setup_fault = "none"
    /\ loc = NoLocation

\* lightControl(pin, arg1)
light_first ==
    /\ pc = "lightControl"
    /\ out1 = NoDuty
    /\ out1' = lightControl(arg1)
    /\ duty_cycle' = out1'
    /\ UNCHANGED <<pc, PWM_pin, sun_alt, altitude, prev_altitude, tick, now,
                   sleep_arg, work, exc, cycle, calls_in_cycle, alt_before,
                   late_calls, hwVars, interrupted_at, arg1, arg2, out2,
                   clockVars, setup_fault, loc>>

\* lightControl(pin, arg2)
light_second ==
    /\ pc = "lightControl"
    /\ out2 = NoDuty
    /\ out2' = lightControl(arg2)
    /\ duty_cycle' = out2'
    /\ UNCHANGED <<pc, PWM_pin, sun_alt, altitude, prev_altitude, tick, now,
                   sleep_arg, work, exc, cycle, calls_in_cycle, alt_before,
                   late_calls, hwVars, interrupted_at, arg1, arg2, out1,
                   clockVars, setup_fault, loc>>

NextLight ==
    \/ light_first
    \/ light_second

SpecLight == InitLight /\ [][NextLight]_vars

(***************************************************************************)
(* setLocation on its own: a latitude, a longitude and the outcome of the  *)
(* time zone lookup are drawn, and setLocation is called with them and no  *)
(* city.                                                                   *)
(***************************************************************************)
InitLoc ==
    /\ pc = "setLocation_alone"
    /\ PWM_pin = TRUE
    /\ sun_alt = NoAltitude
    /\ altitude = NoAltitude
    /\ prev_altitude = NoAltitude
    /\ tick = 0
    /\ now = 0
    /\ sleep_arg = 0
    /\ work = 0
    /\ duty_cycle = NoDuty
    /\ exc = "none"
    /\ cycle = 0
    /\ calls_in_cycle = 0
    /\ alt_before = NoAltitude
    /\ stop_calls = 0
    /\ cleanup_calls = 0
    /\ interrupted_at = "none"
    /\ late_calls = 0
    /\ arg1 = NoAltitude
    /\ arg2 = NoAltitude
    /\ out1 = NoDuty
    /\ out2 = NoDuty
    /\ tad_offset = 0
    /\ tad = 0
    /\ read_at = 0
    /\ tad_before = 0
    /\ read_before = 0
    /\ setup_fault = "none"
    /\ loc \in [lat : Lats, lon : Lons, lookup : BOOLEAN, result : {"args"},
                ret : {<<>>}]

\* setLocation(city=None, lat_lon=[lat, lon])
loc_call ==
    /\ pc = "setLocation_alone"
    /\ loc.result = "args"
    /\ LET r == setLocation(loc.lat, loc.lon, loc.lookup)
       IN  loc' = [loc EXCEPT !.result = r.result, !.ret = r.ret]
    /\ UNCHANGED <<pc, PWM_pin, loopVars, exc, hwVars, interrupted_at, arg1,
                   arg2, out1, out2, clockVars, setup_fault>>

NextLoc == loc_call

SpecLoc == InitLoc /\ [][NextLoc]_vars

(***************************************************************************)
(* Properties                                                              *)
(***************************************************************************)

\* line 117 of the current iteration is behind main
AfterLight == pc \in {"update", "sleep", "sleeping"}

\* main has ended: it returned or an exception left it
Ended == pc \in {"returned", "raised"}

\* C1: when the quantized altitude of an iteration equals that of the
\* iteration before it, the iteration makes no ChangeDutyCycle call.
C1_Idempotent ==
    (AfterLight /\ cycle >= 2 /\ altitude = alt_before) => calls_in_cycle = 0

C1_Witness ==
    /\ pc = "update"
    /\ cycle = 2
    /\ altitude = alt_before
    /\ altitude = -9

\* C2: the first iteration makes exactly one ChangeDutyCycle call whatever
\* the sun's altitude, the start value of prev_altitude lying outside the
\* range TWILIGHT_ALT .. 0 of the quantized altitudes.
C2_FirstCycleWrites ==
    /\ (cycle = 1 /\ pc = "light") =>
           /\ altitude \in TWILIGHT_ALT .. 0
           /\ prev_altitude \notin TWILIGHT_ALT .. 0
    /\ (cycle = 1 /\ AfterLight) => calls_in_cycle = 1

C2_Witness ==
    /\ cycle = 1
    /\ pc = "update"
    /\ sun_alt = AltScale * AltMargin
    /\ altitude = 0
    /\ calls_in_cycle = 1

\* C3: every value passed to ChangeDutyCycle lies between 0.01 and 99.9,
\* so neither 0 nor 100 is ever sent.
C3_DutyRange ==
    duty_cycle # NoDuty => (1 <= duty_cycle /\ duty_cycle <= 9990)

C3_Witness ==
    /\ pc = "update"
    /\ calls_in_cycle = 1
    /\ altitude = 0
    /\ duty_cycle = 9990

\* C4: a KeyboardInterrupt that arrives during the sleep ending an
\* iteration is followed by one PWM_pin.stop(), one GPIO.cleanup() and a
\* normal return of main, and by no ChangeDutyCycle call.
C4_ShutdownOnCancel ==
    interrupted_at = "sleeping" =>
        /\ PWM_pin
        /\ late_calls = 0
        /\ stop_calls <= 1
        /\ cleanup_calls <= stop_calls
        /\ Ended => (pc = "returned" /\ stop_calls = 1 /\ cleanup_calls = 1)

C4_Witness ==
    /\ interrupted_at = "sleeping"
    /\ pc = "returned"
    /\ stop_calls = 1
    /\ cleanup_calls = 1

\* C5: when an error other than KeyboardInterrupt leaves an iteration of
\* the loop, PWM_pin.stop() and GPIO.cleanup() have run by the time main
\* ends with that error.
C5_ShutdownOnError ==
    (pc = "raised" /\ exc = "Error" /\ cycle >= 1) =>
        (stop_calls = 1 /\ cleanup_calls = 1)

\* C6: a KeyboardInterrupt arriving anywhere in the try block ends with the
\* shutdown done and main returning normally, no exception leaving main.
C6_CancelAlwaysClean ==
    (interrupted_at # "none" /\ Ended) =>
        /\ pc = "returned"
        /\ exc = "none"
        /\ stop_calls = 1
        /\ cleanup_calls = 1

\* the whole degree t that raw, in 1/AltScale degree, truncates to toward zero
IsTruncation(t, raw) ==
    IF raw >= 0
    THEN AltScale * t <= raw /\ raw < AltScale * (t + 1)
    ELSE AltScale * (t - 1) < raw /\ raw <= AltScale * t

\* C7: the quantized altitude is the raw altitude truncated toward zero,
\* replaced by 0 when that is >= 0 and by TWILIGHT_ALT when that is below
\* TWILIGHT_ALT; it is an integer of TWILIGHT_ALT .. 0.
C7_Quantization ==
    (pc = "light" \/ AfterLight) =>
        /\ altitude \in TWILIGHT_ALT .. 0
        /\ \E t \in (TWILIGHT_ALT - AltMargin) .. AltMargin :
              /\ IsTruncation(t, sun_alt)
              /\ t >= 0 => altitude = 0
              /\ t < TWILIGHT_ALT => altitude = TWILIGHT_ALT
              /\ (TWILIGHT_ALT <= t /\ t < 0) => altitude = t

C7_Witness ==
    /\ pc = "light"
    /\ sun_alt = -1
    /\ altitude = 0

\* the whole percentage q that 100 * |TWILIGHT_ALT - a| / |TWILIGHT_ALT|
\* truncates to
IsPercent(q, a) ==
    /\ q * Abs(TWILIGHT_ALT) <= 100 * Abs(TWILIGHT_ALT - a)
    /\ 100 * Abs(TWILIGHT_ALT - a) < (q + 1) * Abs(TWILIGHT_ALT)

\* C8: for the altitude a of TWILIGHT_ALT .. 0 that lightControl is called
\* with, the value sent is the truncation of 100 * |TWILIGHT_ALT - a| /
\* |TWILIGHT_ALT|, with 0 replaced by 0.01 and 100 by 99.9: 99.9 for 0,
\* 0.01 for -18 and 50 for -9.
C8_DutyMapping ==
    (AfterLight /\ calls_in_cycle = 1) =>
        /\ \E q \in 0 .. 100 :
              /\ IsPercent(q, altitude)
              /\ duty_cycle = IF q = 0 THEN 1
                               ELSE IF q = 100 THEN 9990
                               ELSE 100 * q
        /\ altitude = 0 => duty_cycle = 9990
        /\ altitude = -18 => duty_cycle = 1
        /\ altitude = -9 => duty_cycle = 5000

C8_Witness ==
    /\ pc = "update"
    /\ calls_in_cycle = 1
    /\ altitude = -9
    /\ duty_cycle = 5000

\* C9 as stated: of two altitudes of TWILIGHT_ALT .. 0, the lower one gets
\* the greater or equal duty cycle.
C9_Decreasing ==
    (out1 # NoDuty /\ out2 # NoDuty /\ arg1 < arg2) => out1 >= out2

\* C9 amended: of two altitudes of TWILIGHT_ALT .. 0, the lower one gets
\* the smaller or equal duty cycle.
C9_Increasing ==
    (out1 # NoDuty /\ out2 # NoDuty /\ arg1 < arg2) => out1 <= out2

C9_Witness ==
    /\ arg1 = -10
    /\ arg2 = -9
    /\ out1 = 4400
    /\ out2 = 5000

\* C10: when the work of an iteration took less than TIMER, the sleep
\* lasts TIMER less the work and ends exactly TIMER after the iteration's
\* tick, which is when the next iteration records its own tick.
C10_DriftCompensation ==
    /\ [](((pc = "sleeping" \/ (pc = "tick" /\ cycle >= 1)) /\ work < TIMER)
             => sleep_arg = TIMER - work)
    /\ []((pc = "sleeping" /\ cycle >= 1) => now = tick + work)
    /\ []((pc = "tick" /\ cycle >= 1 /\ work < TIMER) => now = tick + TIMER)
    /\ [][(pc = "tick" /\ pc' = "compute") => tick' = now]_vars

C10_Witness ==
    /\ pc = "tick"
    /\ cycle = 2
    /\ work = 7
    /\ sleep_arg = 53
    /\ now = tick + 60
    /\ tick = 60

\* C11: setLocation called with a pair and no city accepts the pair
\* exactly when -90 <= lat <= 90 and -180 < lon <= 180 (the time zone
\* lookup succeeding), returns it unchanged, and raises otherwise; a pair
\* with a zero latitude or longitude inside the bounds is accepted.
C11_LocationValidation ==
    (loc.result \in {"accepted", "raised"} /\ loc.lookup) =>
        /\ (loc.result = "accepted") <=> InBounds(loc.lat, loc.lon)
        /\ (loc.result = "accepted") => loc.ret = <<loc.lat, loc.lon>>

\* C12: PWM_pin.stop() comes strictly before GPIO.cleanup(), each happens
\* once, and main returns only after both.
C12_ShutdownOrder ==
    /\ [](cleanup_calls <= stop_calls /\ stop_calls <= 1)
    /\ [](pc = "returned" => (stop_calls = 1 /\ cleanup_calls = 1))
    /\ [][cleanup_calls' # cleanup_calls =>
             /\ stop_calls = 1
             /\ stop_calls' = stop_calls
             /\ cleanup_calls' = 1
             /\ pc # "returned"]_vars

C12_Witness ==
    /\ pc = "returned"
    /\ interrupted_at = "light"
    /\ stop_calls = 1
    /\ cleanup_calls = 1

\* C13: when an iteration has reached its sleep, prev_altitude is the
\* quantized altitude of that iteration, a ChangeDutyCycle call or none;
\* prev_altitude is assigned at line 77 and at line 120 only.
C13_PrevAltitudeTracking ==
    /\ []((pc \in {"sleep", "sleeping"} \/ (pc = "tick" /\ cycle >= 1)) =>
             (prev_altitude = altitude /\ altitude \in TWILIGHT_ALT .. 0))
    /\ [][prev_altitude' # prev_altitude =>
             \/ pc = "setup" /\ prev_altitude = NoAltitude
             \/ pc = "update" /\ prev_altitude' = altitude]_vars

C13_Witness ==
    /\ pc = "sleep"
    /\ cycle = 2
    /\ calls_in_cycle = 0
    /\ altitude = -5
    /\ prev_altitude = -5

\* the iteration has read the clock at line 86 and not yet reached line 123
AfterRead == pc \in {"quantize", "light", "update"}

C15_SetupErrorsPrecedeLoop ==
    setup_fault # "none" =>
        (pc = "raised" /\ cycle = 0 /\ duty_cycle = NoDuty)

\* C15 amended: a run whose setLocation call raises, or that is given a
\* non-empty start time or date string time.strptime rejects, fails
\* before the first iteration and makes no ChangeDutyCycle call.
C15_RejectedSetupPrecedesLoop ==
    setup_fault \in {"location", "malformed"} =>
        /\ pc = "raised"
        /\ exc = "Error"
        /\ cycle = 0
        /\ calls_in_cycle = 0
        /\ duty_cycle = NoDuty

C15_Witness ==
    /\ setup_fault = "malformed"
    /\ pc = "raised"
    /\ PWM_pin
    /\ cycle = 0
    /\ duty_cycle = NoDuty

\* C16: whenever the loop is at the sleep ending an iteration, the last
\* value sent to ChangeDutyCycle is the duty cycle of the quantized
\* altitude of that iteration.
C16_NeverStale ==
    pc \in {"sleep", "sleeping"} =>
        \E q \in 0 .. 100 :
            /\ IsPercent(q, altitude)
            /\ duty_cycle = IF q = 0 THEN 1
                             ELSE IF q = 100 THEN 9990
                             ELSE 100 * q

C16_Witness ==
    /\ pc = "sleeping"
    /\ cycle = 2
    /\ calls_in_cycle = 0
    /\ altitude = -9
    /\ duty_cycle = 5000

\* C17: whatever the work D >= 0 took, the value passed to time.sleep is
\* greater than 0 and at most TIMER, and the sleep ends at tick + k * TIMER
\* for the smallest k with k * TIMER > D.
C17_SleepBounds ==
    /\ (pc = "sleeping" \/ (pc = "tick" /\ cycle >= 1)) =>
           (0 < sleep_arg /\ sleep_arg <= TIMER)
    /\ pc = "sleeping" => (work >= 0 /\ now = tick + work)
    /\ (pc = "tick" /\ cycle >= 1) =>
           \E k \in 1 .. (work + 1) :
               /\ now = tick + k * TIMER
               /\ k * TIMER > work
               /\ (k - 1) * TIMER <= work

C17_Witness ==
    /\ pc = "tick"
    /\ cycle = 1
    /\ work = TIMER
    /\ sleep_arg = TIMER
    /\ now = tick + 2 * TIMER

====
